---------------------------- MODULE Spec2Model ----------------------------
(***************************************************************************)
(* Page-number sequence inference of clean-pdf-extract                     *)
(* (filterpagenumbers.py): candidate extraction, the monotonic filter,      *)
(* sequence enumeration, page-length estimation, trimming, selection, gap   *)
(* repair, the second pass, rendering, and the per-file loop of main.       *)
(*                                                                         *)
(* A line is a sequence of one-character strings.  Line indices are         *)
(* 0-based as in the code: line i of the code is lines[i + 1] here.         *)
(* Python floats are modelled by exact rationals <<numerator, denominator>> *)
(* in lowest terms with a positive denominator.                             *)
(***************************************************************************)
EXTENDS Integers, Sequences, FiniteSets

(***************************************************************************)
(* Characters and the three regular expressions                            *)
(***************************************************************************)
DigitChars == <<"0", "1", "2", "3", "4", "5", "6", "7", "8", "9">>

IsDigit(ch) == \E k \in 1..10 : DigitChars[k] = ch

IsSpace(ch) == ch = " "

IsDash(ch) == ch = "-"

DigitValue(ch) == (CHOOSE k \in 1..10 : DigitChars[k] = ch) - 1

\* Position after the longest run of characters of one class starting at
\* position i (1-based); i itself when line[i] is not of the class.
RECURSIVE SkipSpaces(_, _)
SkipSpaces(line, i) ==
    IF i <= Len(line) /\ IsSpace(line[i]) THEN SkipSpaces(line, i + 1) ELSE i

RECURSIVE SkipDashes(_, _)
SkipDashes(line, i) ==
    IF i <= Len(line) /\ IsDash(line[i]) THEN SkipDashes(line, i + 1) ELSE i

RECURSIVE SkipDigits(_, _)
SkipDigits(line, i) ==
    IF i <= Len(line) /\ IsDigit(line[i]) THEN SkipDigits(line, i + 1) ELSE i

\* int(m.group(1)): the decimal value of line[a .. b - 1].
RECURSIVE ParseInt(_, _, _)
ParseInt(line, a, b) ==
    IF b <= a THEN 0
    ELSE 10 * ParseInt(line, a, b - 1) + DigitValue(line[b - 1])

\* str(number): the decimal digits of a non-negative integer.
RECURSIVE StrOfNumber(_)
StrOfNumber(n) ==
    IF n < 10 THEN <<DigitChars[n + 1]>>
    ELSE Append(StrOfNumber(n \div 10), DigitChars[(n % 10) + 1])

NoMatch == -1

\* NUMBER_ONLY_RE = ^\s*(\d+)\s*$ : the number, or NoMatch.
NumberOnlyMatch(line) ==
    LET a == SkipSpaces(line, 1)
        b == SkipDigits(line, a)
        c == SkipSpaces(line, b)
    IN  IF b > a /\ c = Len(line) + 1 THEN ParseInt(line, a, b) ELSE NoMatch

\* DASHED_NUMBER_RE = ^\s*-+\s*(\d+)\s*-+\s*$ : the number, or NoMatch.
DashedNumberMatch(line) ==
    LET a == SkipSpaces(line, 1)
        b == SkipDashes(line, a)
        c == SkipSpaces(line, b)
        d == SkipDigits(line, c)
        e == SkipSpaces(line, d)
        f == SkipDashes(line, e)
        g == SkipSpaces(line, f)
    IN  IF b > a /\ d > c /\ f > e /\ g = Len(line) + 1
        THEN ParseInt(line, c, d) ELSE NoMatch

\* Whether text occurs in line starting at position i.
HasPrefixAt(line, i, text) ==
    /\ i + Len(text) - 1 <= Len(line)
    /\ \A k \in 1..Len(text) : line[i + k - 1] = text[k]

NoSpan == <<>>

\* line_has_page_number: re.search of ^\s*(?:-+\s*)?(<number>) ; the span of
\* the whole match as Python's (start, end), or NoSpan when there is none.
line_has_page_number(line, number) ==
    LET a == SkipSpaces(line, 1)
        b == SkipDashes(line, a)
        c == IF b > a THEN SkipSpaces(line, b) ELSE a
        digits == StrOfNumber(number)
    IN  IF HasPrefixAt(line, c, digits)
        THEN <<0, c + Len(digits) - 1>> ELSE NoSpan

(***************************************************************************)
(* Candidate                                                               *)
(***************************************************************************)
Candidate(number, line, line_index, span) ==
    [number |-> number, line |-> line, line_index |-> line_index, span |-> span]

\* Candidate.line_without_page_number: None (isNone), or the line with the
\* characters of the span removed.
line_without_page_number(c) ==
    IF c.span = NoSpan THEN [isNone |-> TRUE, text |-> <<>>]
    ELSE [isNone |-> FALSE,
          text |-> SubSeq(c.line, 1, c.span[1])
                   \o SubSeq(c.line, c.span[2] + 1, Len(c.line))]

\* Candidate.marked_line with the default tag; each tag is one element of
\* the marked line.
OpenTag == "<pagenumber>"

CloseTag == "</pagenumber>"

marked_line(c) ==
    IF c.span = NoSpan THEN <<OpenTag>> \o c.line \o <<CloseTag>>
    ELSE SubSeq(c.line, 1, c.span[1]) \o <<OpenTag>>
         \o SubSeq(c.line, c.span[1] + 1, c.span[2]) \o <<CloseTag>>
         \o SubSeq(c.line, c.span[2] + 1, Len(c.line))

\* page_number_candidates: at most one Candidate per line, in line order,
\* the number-only form tried before the dashed form.
RECURSIVE page_number_candidates_upto(_, _)
page_number_candidates_upto(lines, n) ==
    IF n = 0 THEN <<>>
    ELSE LET before == page_number_candidates_upto(lines, n - 1)
             line == lines[n]
             m1 == NumberOnlyMatch(line)
             m2 == DashedNumberMatch(line)
         IN  IF m1 # NoMatch THEN Append(before, Candidate(m1, line, n - 1, NoSpan))
             ELSE IF m2 # NoMatch THEN Append(before, Candidate(m2, line, n - 1, NoSpan))
             ELSE before

page_number_candidates(lines) == page_number_candidates_upto(lines, Len(lines))

(***************************************************************************)
(* Exact rationals standing for the floats of the code                     *)
(***************************************************************************)
Abs(n) == IF n < 0 THEN -n ELSE n

RECURSIVE GCD(_, _)
GCD(a, b) == IF b = 0 THEN a ELSE GCD(b, a % b)

\* n / d in lowest terms, d # 0.
Rat(n, d) ==
    LET g == GCD(Abs(n), Abs(d))
        s == IF d < 0 THEN -1 ELSE 1
    IN  <<(s * n) \div g, (s * d) \div g>>

RatOfInt(n) == <<n, 1>>

RatAdd(x, y) == Rat(x[1] * y[2] + y[1] * x[2], x[2] * y[2])

RatSub(x, y) == Rat(x[1] * y[2] - y[1] * x[2], x[2] * y[2])

RatMul(x, y) == Rat(x[1] * y[1], x[2] * y[2])

RatDiv(x, y) == Rat(x[1] * y[2], x[2] * y[1])

RatLess(x, y) == x[1] * y[2] < y[1] * x[2]

RatMax(x, y) == IF RatLess(x, y) THEN y ELSE x

RatMin(x, y) == IF RatLess(y, x) THEN y ELSE x

\* int(x): truncation toward zero.
RatToInt(x) == IF x[1] >= 0 THEN x[1] \div x[2] ELSE -((-x[1]) \div x[2])

\* sorted(data) for a list of rationals, by insertion.
RECURSIVE RatInsert(_, _)
RatInsert(sorted, x) ==
    IF sorted = <<>> THEN <<x>>
    ELSE IF RatLess(x, Head(sorted)) THEN <<x>> \o sorted
    ELSE <<Head(sorted)>> \o RatInsert(Tail(sorted), x)

RECURSIVE RatSort(_)
RatSort(data) ==
    IF data = <<>> THEN <<>>
    ELSE RatInsert(RatSort(SubSeq(data, 1, Len(data) - 1)), data[Len(data)])

\* The middle of a sorted non-empty list: the middle element, or the mean
\* of the two middle elements.
MiddleOf(sorted) ==
    IF Len(sorted) % 2 = 1 THEN sorted[(Len(sorted) \div 2) + 1]
    ELSE RatDiv(RatAdd(sorted[Len(sorted) \div 2], sorted[(Len(sorted) \div 2) + 1]),
                RatOfInt(2))

\* statistics.median of a non-empty list.  (Empty data raises
\* StatisticsError: callers test for it.)
median(data) == MiddleOf(RatSort(data))

(***************************************************************************)
(* Monotonic filter: longest_increasing_subsequence                        *)
(***************************************************************************)
\* The binary search of lines 101-108; seq and min_idx are 0-based arrays
\* (seq as a function on 0..n-1).
RECURSIVE LisSearch(_, _, _, _, _)
LisSearch(seq, min_idx, i, lo, hi) ==
    IF lo < hi
    THEN LET mid == lo + ((hi - lo) \div 2)
         IN  IF seq[min_idx[mid]] < seq[i]
             THEN LisSearch(seq, min_idx, i, mid + 1, hi)
             ELSE LisSearch(seq, min_idx, i, lo, mid)
    ELSE lo

\* LisUpdate with the predecessor of line 115 taken at new_len instead of
\* new_len - 1.
LisUpdateOffByOne(st, i, new_len) ==
    [min_idx |-> [st.min_idx EXCEPT ![new_len] = i],
     pred |-> [st.pred EXCEPT ![i] = st.min_idx[new_len]],
     max_len |-> IF new_len > st.max_len THEN new_len ELSE st.max_len]

\* Lines 111-120 for index i, new_len being the result of the search.
LisUpdate(st, i, new_len) ==
    [min_idx |-> [st.min_idx EXCEPT ![new_len] = i],
     pred |-> [st.pred EXCEPT ![i] = st.min_idx[new_len - 1]],
     max_len |-> IF new_len > st.max_len THEN new_len ELSE st.max_len]

\* The loop of lines 98-120 from index i on.
RECURSIVE LisLoop(_, _, _, _)
LisLoop(seq, n, i, st) ==
    IF i >= n THEN st
    ELSE LisLoop(seq, n, i + 1,
                 LisUpdate(st, i, LisSearch(seq, st.min_idx, i, 1, st.max_len + 1)))

\* The reconstruction of lines 123-127: lis[i] for i = max_len-1 down to 0.
RECURSIVE LisReconstruct(_, _, _, _)
LisReconstruct(seq, pred, k, len) ==
    IF len = 0 THEN <<>>
    ELSE Append(LisReconstruct(seq, pred, pred[k], len - 1), seq[k])

LisResult(seq, st) ==
    LisReconstruct(seq, st.pred, st.min_idx[st.max_len], st.max_len)

LisOfArray(seq, n) ==
    LisResult(seq, LisLoop(seq, n, 0,
                           [min_idx |-> [j \in 0..n |-> 0],
                            pred |-> [j \in 0..(n - 1) |-> 0],
                            max_len |-> 0]))

longest_increasing_subsequence(numbers) ==
    LisOfArray([i \in 0..(Len(numbers) - 1) |-> numbers[i + 1]], Len(numbers))

(***************************************************************************)
(* Sequence enumerator: candidate_sequences                                *)
(***************************************************************************)
\* candidates_by_number[number]: the candidates of that number, in order.
RECURSIVE CandidatesOfNumber(_, _)
CandidatesOfNumber(candidates, number) ==
    IF candidates = <<>> THEN <<>>
    ELSE IF Head(candidates).number = number
         THEN <<Head(candidates)>> \o CandidatesOfNumber(Tail(candidates), number)
         ELSE CandidatesOfNumber(Tail(candidates), number)

\* [c] + s for every s of a list of sequences.
RECURSIVE PrependToAll(_, _)
PrependToAll(c, seqs) ==
    IF seqs = <<>> THEN <<>>
    ELSE <<(<<c>> \o Head(seqs))>> \o PrependToAll(c, Tail(seqs))

\* _subsequences(prev, seq, candidate_map), the generator's output as a
\* list; prev_index is prev.line_index, or -1 for prev = None.  bucket is
\* what is left of candidate_map[seq[0]] in the loop of line 149.
RECURSIVE SubsequencesFrom(_, _, _, _)
SubsequencesFrom(prev_index, seq, candidates, bucket) ==
    IF bucket = <<>> THEN <<>>
    ELSE (IF Head(bucket).line_index > prev_index
          THEN PrependToAll(Head(bucket),
                   IF Tail(seq) = <<>> THEN << <<>> >>
                   ELSE SubsequencesFrom(Head(bucket).line_index, Tail(seq), candidates,
                            CandidatesOfNumber(candidates, Head(Tail(seq)))))
          ELSE <<>>)
         \o SubsequencesFrom(prev_index, seq, candidates, Tail(bucket))

candidate_sequences(sequence, candidates) ==
    IF sequence = <<>> THEN << <<>> >>
    ELSE SubsequencesFrom(-1, sequence, candidates,
                          CandidatesOfNumber(candidates, Head(sequence)))

(***************************************************************************)
(* Page-length estimator                                                   *)
(***************************************************************************)
avg_page_len(prev, curr) ==
    Rat(curr.line_index - prev.line_index, curr.number - prev.number)

\* [avg_page_len(prev, curr) for prev, curr in pairwise(sequence)]
PairLengths(sequence) ==
    [i \in 1..(IF Len(sequence) < 2 THEN 0 ELSE Len(sequence) - 1) |->
        avg_page_len(sequence[i], sequence[i + 1])]

\* median() raises StatisticsError on empty data: a sequence with fewer than
\* two candidates, or no sequence at all.
EstimateRaises(sequences) ==
    \/ sequences = <<>>
    \/ \E k \in 1..Len(sequences) : Len(sequences[k]) < 2

estimate_page_length(sequences) ==
    median([k \in 1..Len(sequences) |-> median(PairLengths(sequences[k]))])

(***************************************************************************)
(* Plausibility trimmer                                                    *)
(***************************************************************************)
\* plausible_page_number_pair without the factor 20 of line 183: a page
\* shorter than the estimate is taken for much too short a page.
PlausibleUnscaled(prev, curr, page_length, max_gap) ==
    IF curr.number > prev.number + max_gap THEN FALSE
    ELSE IF RatLess(avg_page_len(prev, curr), page_length) THEN FALSE
    ELSE TRUE

plausible_page_number_pair(prev, curr, page_length, max_gap) ==
    IF curr.number > prev.number + max_gap THEN FALSE
    ELSE IF RatLess(RatMul(RatOfInt(20), avg_page_len(prev, curr)), page_length)
         THEN FALSE
    ELSE TRUE

\* The first i (counted from 1) whose pair (sequence[i-1], sequence[i]) of
\* the code is implausible, 0 when there is none.
RECURSIVE FirstImplausible(_, _, _, _)
FirstImplausible(sequence, page_length, max_gap, i) ==
    IF i >= Len(sequence) THEN 0
    ELSE IF ~plausible_page_number_pair(sequence[i], sequence[i + 1],
                                        page_length, max_gap)
         THEN i
    ELSE FirstImplausible(sequence, page_length, max_gap, i + 1)

\* Longer with the comparison of line 197 reversed.
LongerReversed(start, end) == IF Len(start) < Len(end) THEN start ELSE end

\* "longer = start if len(start) > len(end) else end"
Longer(start, end) == IF Len(start) > Len(end) THEN start ELSE end

\* trim_sequence with i the first implausible pair (0: none).
RECURSIVE TrimAt(_, _, _, _)
TrimAt(sequence, page_length, max_gap, i) ==
    IF i = 0 THEN sequence
    ELSE Longer(SubSeq(sequence, 1, i),
                TrimAt(SubSeq(sequence, i + 1, Len(sequence)), page_length, max_gap,
                       FirstImplausible(SubSeq(sequence, i + 1, Len(sequence)),
                                        page_length, max_gap, 1)))

trim_sequence(sequence, page_length, max_gap) ==
    TrimAt(sequence, page_length, max_gap,
           FirstImplausible(sequence, page_length, max_gap, 1))

(***************************************************************************)
(* Sequence selector                                                       *)
(***************************************************************************)
RatOne == RatOfInt(1)

\* "score += ratio if ratio < 1.0 else 1.0/ratio"
ScoreTerm(ratio) == IF RatLess(ratio, RatOne) THEN ratio ELSE RatDiv(RatOne, ratio)

\* The score of one sequence (lines 205-210), from pair i on.
RECURSIVE ScoreFrom(_, _, _)
ScoreFrom(sequence, page_length, i) ==
    IF i >= Len(sequence) THEN RatOfInt(0)
    ELSE RatAdd(ScoreTerm(RatDiv(avg_page_len(sequence[i], sequence[i + 1]),
                                 page_length)),
                ScoreFrom(sequence, page_length, i + 1))

\* list < list as Python compares lists of Candidates: the first position
\* where the two hold different objects decides by Candidate.__lt__ (the
\* numbers); with none, the shorter list is the smaller.
FirstDifference(a, b) ==
    LET differ == {i \in 1..Len(a) : i <= Len(b) /\ a[i] # b[i]}
    IN  IF differ = {} THEN 0 ELSE CHOOSE j \in differ : \A k \in differ : j <= k

ListLessAt(a, b, i) == IF i = 0 THEN Len(a) < Len(b) ELSE a[i].number < b[i].number

ListLess(a, b) == ListLessAt(a, b, FirstDifference(a, b))

\* (score, sequence) < (score, sequence) as Python compares tuples.
ScoredLess(x, y) ==
    \/ RatLess(x[1], y[1])
    \/ x[1] = y[1] /\ x[2] # y[2] /\ ListLess(x[2], y[2])

\* The position of the first entry of scored that no other entry is
\* greater than.
FirstMaximal(scored) ==
    LET Maximal(k) ==
            \A j \in (1..Len(scored)) \ {k} : ~ScoredLess(scored[k], scored[j])
    IN  CHOOSE k \in 1..Len(scored) : Maximal(k) /\ \A j \in 1..(k - 1) : ~Maximal(j)

\* scored.sort(reverse=True); scored[0][1]: the sort is stable, so the
\* result is the first of the entries no other entry is greater than.
select_best_sequence(sequences, page_length) ==
    sequences[FirstMaximal([k \in 1..Len(sequences) |->
                              <<ScoreFrom(sequences[k], page_length, 1), sequences[k]>>])]

(***************************************************************************)
(* Gap repairer                                                            *)
(***************************************************************************)
\* lines[index] of Python for a 0-based index: IndexError outside
\* -len .. len-1, a negative index counts from the end.
IndexRaises(lines, index) == index >= Len(lines) \/ index < -Len(lines)

LineAt(lines, index) ==
    IF index >= 0 THEN lines[index + 1] ELSE lines[Len(lines) + index + 1]

\* One read of find_page_number: lines[index] and line_has_page_number on
\* it.  tried is false for a read the code does not make.
ReadLine(lines, index, number, tried) ==
    IF ~tried THEN [tried |-> FALSE, raises |-> FALSE, span |-> NoSpan]
    ELSE IF IndexRaises(lines, index)
         THEN [tried |-> TRUE, raises |-> TRUE, span |-> NoSpan]
    ELSE [tried |-> TRUE, raises |-> FALSE,
          span |-> line_has_page_number(LineAt(lines, index), number)]

\* What one round of the loop of find_page_number comes to, given its two
\* reads: "raise", "low" or "high" (the index of the returned Candidate),
\* or "next" for another round.
RoundOutcome(low, high) ==
    IF low.raises THEN "raise"
    ELSE IF high.raises THEN "raise"
    ELSE IF high.span # NoSpan THEN "high"
    ELSE IF low.span # NoSpan THEN "low"
    ELSE "next"

\* The indices the round has read.
RoundReads(low, lowIndex, high, highIndex) ==
    (IF low.tried THEN {lowIndex} ELSE {})
    \cup (IF high.tried /\ ~low.raises THEN {highIndex} ELSE {})

\* The result of a round with the given outcome: what the call returned
\* (found, candidate), whether lines[index] raised IndexError, and every
\* index the call read; "next" when the loop goes on.
RoundResult(outcome, number, start_line, distance, lines, low, high, seen) ==
    CASE outcome = "raise" ->
           [raised |-> "IndexError", found |-> FALSE, inspected |-> seen]
      [] outcome = "high" ->
           [raised |-> "none", found |-> TRUE,
            candidate |-> Candidate(number, LineAt(lines, start_line + distance),
                                    start_line + distance, high.span),
            inspected |-> seen]
      [] outcome = "low" ->
           [raised |-> "none", found |-> TRUE,
            candidate |-> Candidate(number, LineAt(lines, start_line - distance),
                                    start_line - distance, low.span),
            inspected |-> seen]
      [] OTHER -> "next"

\* The second read of a round depends on the first.
HighRead(number, start_line, max_line, lines, distance, low) ==
    ReadLine(lines, start_line + distance, number,
             low.span = NoSpan /\ start_line + distance <= max_line)

\* The loop of find_page_number from the given distance on.
RECURSIVE FindFrom(_, _, _, _, _, _, _)
RECURSIVE FindRound(_, _, _, _, _, _, _, _)
RECURSIVE FindNext(_, _, _, _, _, _, _, _)
FindFrom(number, start_line, min_line, max_line, lines, distance, inspected) ==
    IF ~(start_line - distance >= min_line \/ start_line + distance <= max_line)
    THEN [raised |-> "none", found |-> FALSE, inspected |-> inspected]
    ELSE FindRound(number, start_line, min_line, max_line, lines, distance, inspected,
                   ReadLine(lines, start_line - distance, number,
                            start_line - distance >= min_line))

FindRound(number, start_line, min_line, max_line, lines, distance, inspected, low) ==
    FindNext(number, start_line, min_line, max_line, lines, distance,
             [low |-> low,
              high |-> HighRead(number, start_line, max_line, lines, distance, low)],
             inspected)

FindNext(number, start_line, min_line, max_line, lines, distance, round, inspected) ==
    IF RoundOutcome(round.low, round.high) = "next"
    THEN FindFrom(number, start_line, min_line, max_line, lines, distance + 1,
                  inspected \cup RoundReads(round.low, start_line - distance,
                                            round.high, start_line + distance))
    ELSE RoundResult(RoundOutcome(round.low, round.high), number, start_line,
                     distance, lines, round.low, round.high,
                     inspected \cup RoundReads(round.low, start_line - distance,
                                               round.high, start_line + distance))

find_page_number(number, start_line, min_line, max_line, lines) ==
    FindFrom(number, start_line, min_line, max_line, lines, 0, {})

\* The window of one search (lines 252-256): start_line, min_line and
\* max_line as the floats the code computes.
SearchWindow(prev, curr, start_line, page_length) ==
    [start_line |-> start_line,
     min_line |-> RatMax(RatOfInt(prev.line_index + 1), RatSub(start_line, page_length)),
     max_line |-> RatMin(RatOfInt(curr.line_index - 1), RatAdd(start_line, page_length))]

\* The call of line 257, with the int() conversions of lines 258-259.
SearchIn(window, number, lines) ==
    find_page_number(number, RatToInt(window.start_line), RatToInt(window.min_line),
                     RatToInt(window.max_line), lines)

\* One search of the inner loop of repair_sequence (lines 251-261).
SearchMissing(prev, curr, number, lines, page_length) ==
    SearchIn(SearchWindow(prev, curr,
                          RatAdd(RatOfInt(prev.line_index),
                                 RatMul(RatOfInt(number - prev.number), page_length)),
                          page_length),
             number, lines)

\* The state of repair_sequence: the list built so far, the exception
\* raised (or "none"), and the (prev.line_index, curr.line_index, index)
\* of every line read by a search.
RepairStart == [raised |-> "none", repaired |-> <<>>, reads |-> {}]

\* The state after one search with result r.
AfterSearch(st, prev, curr, r) ==
    [raised |-> r.raised,
     repaired |-> IF r.found THEN Append(st.repaired, r.candidate) ELSE st.repaired,
     reads |-> st.reads \cup
               {<<prev.line_index, curr.line_index, i>> : i \in r.inspected}]

\* The loop "for number in missing" for the pair (prev, curr), from number on.
RECURSIVE RepairMissing(_, _, _, _, _, _)
RepairMissing(st, prev, curr, number, lines, page_length) ==
    IF number >= curr.number \/ st.raised # "none" THEN st
    ELSE RepairMissing(AfterSearch(st, prev, curr,
                                   SearchMissing(prev, curr, number, lines, page_length)),
                       prev, curr, number + 1, lines, page_length)

\* "repaired.append(prev)"
WithPrev(st, prev) == [st EXCEPT !.repaired = Append(st.repaired, prev)]

\* One pair of the loop over pairwise(sequence) (lines 244-262): no search
\* when more than max_gap numbers are missing.
RepairPair(st, prev, curr, lines, page_length, max_gap) ==
    IF curr.number - prev.number - 1 > max_gap THEN WithPrev(st, prev)
    ELSE RepairMissing(WithPrev(st, prev), prev, curr, prev.number + 1,
                       lines, page_length)

\* The loop over pairwise(sequence), from pair i on.
RECURSIVE RepairPairs(_, _, _, _, _, _)
RepairPairs(st, sequence, i, lines, page_length, max_gap) ==
    IF i >= Len(sequence) \/ st.raised # "none" THEN st
    ELSE RepairPairs(RepairPair(st, sequence[i], sequence[i + 1], lines,
                                page_length, max_gap),
                     sequence, i + 1, lines, page_length, max_gap)

\* "repaired.append(curr)" after the loop, unless it raised.
WithLast(st, sequence) ==
    IF st.raised # "none" THEN st
    ELSE [st EXCEPT !.repaired = Append(st.repaired, sequence[Len(sequence)])]

repair_sequence(sequence, lines, page_length, max_gap) ==
    IF Len(sequence) < 2
    THEN [raised |-> "none", repaired |-> sequence, reads |-> {}]
    ELSE WithLast(RepairPairs(RepairStart, sequence, 1, lines, page_length, max_gap),
                  sequence)

(***************************************************************************)
(* One pass: make_page_number_sequence                                     *)
(***************************************************************************)
\* len(sequences) > 100 at line 276; line 277 then formats the warning with
\* the name fn, which is not defined in make_page_number_sequence nor at
\* module level: NameError.
SequenceWarningLimit == 100

NumbersOf(candidates) == [k \in 1..Len(candidates) |-> candidates[k].number]

\* [c for c in candidates if c.number in lis_numbers]
RECURSIVE FilterByNumbers(_, _)
FilterByNumbers(candidates, numbers) ==
    IF candidates = <<>> THEN <<>>
    ELSE IF Head(candidates).number \in numbers
         THEN <<Head(candidates)>> \o FilterByNumbers(Tail(candidates), numbers)
         ELSE FilterByNumbers(Tail(candidates), numbers)

\* Lines 279-283 for sequences the estimate does not raise on.
BestOf(sequences, page_length, max_gap) ==
    [raised |-> "none", nsequences |-> Len(sequences),
     sequence |-> select_best_sequence(
                      [k \in 1..Len(sequences) |->
                          trim_sequence(sequences[k], page_length, max_gap)],
                      page_length),
     page_length |-> page_length]

\* Lines 276-283, the candidate sequences given.
SequenceOf(sequences, max_gap) ==
    IF Len(sequences) > SequenceWarningLimit
    THEN [raised |-> "NameError", nsequences |-> Len(sequences)]
    ELSE IF EstimateRaises(sequences)
    THEN [raised |-> "StatisticsError", nsequences |-> Len(sequences)]
    ELSE BestOf(sequences, estimate_page_length(sequences), max_gap)

\* Lines 272-274, the longest increasing subsequence given.
SequencesOf(lis, candidates) ==
    candidate_sequences(lis, FilterByNumbers(candidates, {lis[k] : k \in 1..Len(lis)}))

make_page_number_sequence(candidates, max_gap) ==
    SequenceOf(SequencesOf(longest_increasing_subsequence(NumbersOf(candidates)),
                           candidates),
               max_gap)

(***************************************************************************)
(* Input documents                                                         *)
(*                                                                         *)
(* A document is a list of pages; a page is a run of body lines followed   *)
(* by one footer line.  Footers are bare numbers and the two loose forms   *)
(* the repairer looks for ("2x": the number, then text; "-2": dashes, the  *)
(* number and nothing else).  A document has at most one page with a body  *)
(* and at most one loose footer.                                           *)
(***************************************************************************)
BodyLine == <<"x">>

PlainFooters == { <<"0">>, <<"1">>, <<"2">>, <<"3">> }

LooseFooters == { <<"2", "x">>, <<"-", "2">> }

\* Most pages of a document.
MaxPages == 4

\* The length of the body of a short page and of a long page.
ShortBody == 4

LongBody == 38

\* The body lengths of the n pages of a document, the one body being of
\* the given length.
BodyChoices(n, body) ==
    { b \in [1..n -> {0, body}] : Cardinality({k \in 1..n : b[k] > 0}) <= 1 }

\* The footers of the n pages of a document.
FooterChoices(n, loose) ==
    { f \in [1..n -> PlainFooters \cup loose] :
        Cardinality({k \in 1..n : f[k] \in loose}) <= 1 }

\* The lines of the first n pages with the given footers and body lengths.
RECURSIVE LinesOf(_, _, _)
LinesOf(footers, bodies, n) ==
    IF n = 0 THEN <<>>
    ELSE LinesOf(footers, bodies, n - 1)
         \o [k \in 1..bodies[n] |-> BodyLine] \o <<footers[n]>>

PagedDocuments(loose, body) ==
    UNION { { LinesOf(f, b, n) : f \in FooterChoices(n, loose), b \in BodyChoices(n, body) } :
            n \in 0..MaxPages }

\* The example of the specification: intro, 1, body one, body two, 2, more
\* text, 3, end.
ExampleDocument ==
    << BodyLine, <<"1">>, BodyLine, BodyLine, <<"2">>, BodyLine, <<"3">>, BodyLine >>

\* Three numbers, each on Repeats lines: Repeats^3 candidate sequences.
Repeats == 5

RepeatedDocument ==
    [k \in 1..(3 * Repeats) |-> <<DigitChars[((k - 1) \div Repeats) + 2]>>]

\* The files a run may be given: short documents with loose footers, or
\* documents of bare numbers with a long page.
GeneralDocuments ==
    PagedDocuments(LooseFooters, ShortBody) \cup {ExampleDocument, RepeatedDocument}

SparseDocuments == PagedDocuments({}, LongBody)

DocumentsOf(c) == IF c = "sparse" THEN SparseDocuments ELSE GeneralDocuments

(***************************************************************************)
(* State                                                                   *)
(***************************************************************************)
DEFAULT_MAX_GAP == 10

\* Most input files on one command line.
MaxFiles == 2

VARIABLES
    corpus,       \* which documents the input files are drawn from
    todo,         \* files of args.text the loop of main has not taken yet
    mark,         \* args.mark
    max_gap,      \* args.max_gap
    pc,           \* control position
    lines,        \* process_page_numbers: lines
    candidates,   \* process_page_numbers: candidates
    sequence,     \* process_page_numbers: sequence (first, then second pass)
    page_length,  \* process_page_numbers: page_length
    repaired,     \* process_page_numbers: repaired
    reads,        \* lines read by find_page_number during the repair
    nsequences,   \* len(sequences) of the last make_page_number_sequence
    out,          \* lines printed for the current file
    exc,          \* the uncaught exception, "none" while there is none
    given,        \* the arguments of a function called on its own
    result        \* what that call returned

vars == <<corpus, todo, mark, max_gap, pc, lines, candidates, sequence,
          page_length, repaired, reads, nsequences, out, exc, given, result>>

\* A function called on its own: main calls none this way.
call == <<given, result>>

NoCall == given = <<>> /\ result = <<>>

args == <<corpus, mark, max_gap>>

NoValue == <<>>

NoLength == <<0, 1>>

\* The state at the head of main's loop, nothing processed.
Start ==
    /\ mark \in BOOLEAN
    /\ max_gap = DEFAULT_MAX_GAP
    /\ pc = "loop"
    /\ lines = NoValue
    /\ candidates = NoValue
    /\ sequence = NoValue
    /\ page_length = NoLength
    /\ repaired = NoValue
    /\ reads = {}
    /\ nsequences = 0
    /\ out = <<>>
    /\ exc = "none"

\* One input file.
Init == Start /\ NoCall /\ corpus = "general" /\ todo = 1

\* One input file, of bare numbers with a long page.
InitSparse == Start /\ NoCall /\ corpus = "sparse" /\ todo = 1

\* One or more input files.
InitFiles == Start /\ NoCall /\ corpus = "general" /\ todo \in 1..MaxFiles

\* An exception nothing catches: it leaves process_page_numbers and main.
Raise(name) ==
    /\ pc' = "raised"
    /\ exc' = name

(***************************************************************************)
(* process_page_numbers, one action per statement                          *)
(***************************************************************************)
\* Line 324 takes the next file; lines 289-294 read it, split it into
\* lines and extract the candidates.
Extract ==
    /\ pc = "loop"
    /\ todo > 0
    /\ todo' = todo - 1
    /\ \E text \in DocumentsOf(corpus) :
          /\ lines' = text
          /\ candidates' = page_number_candidates(text)
    /\ pc' = "extracted"
    /\ UNCHANGED <<args, call, sequence, page_length, repaired, reads,
                   nsequences, out, exc>>

\* The assignment "sequence, page_length = make_page_number_sequence(...)"
\* with r what the call comes to; an exception leaves main.
PassEnds(r, after) ==
    /\ nsequences' = r.nsequences
    /\ IF r.raised # "none"
       THEN /\ Raise(r.raised)
            /\ UNCHANGED <<sequence, page_length>>
       ELSE /\ sequence' = r.sequence
            /\ page_length' = r.page_length
            /\ pc' = after
            /\ exc' = exc

\* Line 296: the first pass, over the candidates of the text.
FirstPass ==
    /\ pc = "extracted"
    /\ PassEnds(make_page_number_sequence(candidates, max_gap), "first")
    /\ UNCHANGED <<args, call, todo, lines, candidates, repaired, reads, out>>

\* The assignment "repaired = repair_sequence(...)" with r what the call
\* comes to.
RepairEnds(r) ==
    /\ reads' = r.reads
    /\ IF r.raised # "none"
       THEN /\ Raise(r.raised)
            /\ UNCHANGED repaired
       ELSE /\ repaired' = r.repaired
            /\ pc' = "repaired"
            /\ exc' = exc

\* Line 299: the gap repair.
Repair ==
    /\ pc = "first"
    /\ RepairEnds(repair_sequence(sequence, lines, page_length, max_gap))
    /\ UNCHANGED <<args, call, todo, lines, candidates, sequence, page_length,
                   nsequences, out>>

\* Line 300: the second pass, over the repaired list.
SecondPass ==
    /\ pc = "repaired"
    /\ PassEnds(make_page_number_sequence(repaired, max_gap), "second")
    /\ UNCHANGED <<args, call, todo, lines, candidates, repaired, reads, out>>

\* candidate_by_line_index = { c.line_index: c for c in sequence }: the
\* positions in sequence of the candidates of line i; the dict keeps the
\* last of them.
PositionsAtLine(seq, i) == {k \in 1..Len(seq) : seq[k].line_index = i}

CandidateAtLine(seq, i) ==
    seq[CHOOSE k \in PositionsAtLine(seq, i) : \A j \in PositionsAtLine(seq, i) : j <= k]

\* Printed with the test of line 308 as "is not None": the empty string is
\* printed as well.
PrintedUnlessNone(text, seq, i, marking) ==
    IF PositionsAtLine(seq, i) = {} THEN <<text[i + 1]>>
    ELSE IF marking THEN <<marked_line(CandidateAtLine(seq, i))>>
    ELSE IF ~line_without_page_number(CandidateAtLine(seq, i)).isNone
         THEN <<line_without_page_number(CandidateAtLine(seq, i)).text>>
    ELSE <<>>

\* What the loop of lines 303-313 prints for line i: a list of no line or
\* of one line.  "elif c.line_without_page_number()" takes None and the
\* empty string alike for false.
Printed(text, seq, i, marking) ==
    IF PositionsAtLine(seq, i) = {} THEN <<text[i + 1]>>
    ELSE LET c == CandidateAtLine(seq, i)
             without == line_without_page_number(c)
         IN  IF marking THEN <<marked_line(c)>>
             ELSE IF ~without.isNone /\ without.text # <<>> THEN <<without.text>>
             ELSE <<>>

RECURSIVE RenderUpto(_, _, _, _)
RenderUpto(text, seq, n, marking) ==
    IF n = 0 THEN <<>>
    ELSE RenderUpto(text, seq, n - 1, marking) \o Printed(text, seq, n - 1, marking)

\* Lines 302-313: print the document without (or with marked) page numbers.
Render ==
    /\ pc = "second"
    /\ out' = RenderUpto(lines, sequence, Len(lines), mark)
    /\ pc' = "printed"
    /\ UNCHANGED <<args, call, todo, lines, candidates, sequence, page_length,
                   repaired, reads, nsequences, exc>>

(***************************************************************************)
(* process_page_numbers as a function of the text: the exception raised    *)
(* (or "none"), the sequence of the second pass and the lines printed.     *)
(***************************************************************************)
Failed(name) == [raised |-> name, sequence |-> <<>>, out |-> <<>>]

AfterSecond(text, second, marking) ==
    IF second.raised # "none" THEN Failed(second.raised)
    ELSE [raised |-> "none", sequence |-> second.sequence,
          out |-> RenderUpto(text, second.sequence, Len(text), marking)]

AfterRepair(text, r, max_gap_, marking) ==
    IF r.raised # "none" THEN Failed(r.raised)
    ELSE AfterSecond(text, make_page_number_sequence(r.repaired, max_gap_), marking)

AfterFirst(text, first, max_gap_, marking) ==
    IF first.raised # "none" THEN Failed(first.raised)
    ELSE AfterRepair(text,
                     repair_sequence(first.sequence, text, first.page_length, max_gap_),
                     max_gap_, marking)

process_page_numbers(text, max_gap_, marking) ==
    AfterFirst(text, make_page_number_sequence(page_number_candidates(text), max_gap_),
               max_gap_, marking)

(***************************************************************************)
(* main                                                                    *)
(***************************************************************************)
\* process_page_numbers returns to the loop of line 324.
NextFile ==
    /\ pc = "printed"
    /\ pc' = "loop"
    /\ lines' = NoValue
    /\ candidates' = NoValue
    /\ sequence' = NoValue
    /\ page_length' = NoLength
    /\ repaired' = NoValue
    /\ reads' = {}
    /\ nsequences' = 0
    /\ out' = <<>>
    /\ UNCHANGED <<args, call, todo, exc>>

\* The loop is exhausted: main returns.
Return ==
    /\ pc = "loop"
    /\ todo = 0
    /\ pc' = "returned"
    /\ UNCHANGED <<args, call, todo, lines, candidates, sequence, page_length,
                   repaired, reads, nsequences, out, exc>>

Next ==
    \/ Extract
    \/ FirstPass
    \/ Repair
    \/ SecondPass
    \/ Render
    \/ NextFile
    \/ Return

Spec == Init /\ [][Next]_vars

SpecSparse == InitSparse /\ [][Next]_vars

SpecFiles == InitFiles /\ [][Next]_vars


(***************************************************************************)
(* Functions called on their own, on arguments drawn from bounded sets     *)
(***************************************************************************)
\* The variables of main and process_page_numbers.
program == <<corpus, todo, mark, max_gap, lines, candidates, sequence,
             page_length, repaired, reads, nsequences, out, exc>>

\* Nothing of main has run and nothing is returned yet.
CallStart ==
    /\ corpus = "general"
    /\ todo = 0
    /\ mark = FALSE
    /\ max_gap = DEFAULT_MAX_GAP
    /\ lines = NoValue
    /\ candidates = NoValue
    /\ sequence = NoValue
    /\ page_length = NoLength
    /\ repaired = NoValue
    /\ reads = {}
    /\ nsequences = 0
    /\ out = <<>>
    /\ exc = "none"
    /\ result = <<>>

\* The longest list given to longest_increasing_subsequence, and the
\* largest number in it.
MaxLen == 4

MaxNumber == 3

NumberLists == UNION { [1..n -> 0..MaxNumber] : n \in 0..MaxLen }

InitLis == CallStart /\ pc = "call_lis" /\ given \in NumberLists

\* lis = longest_increasing_subsequence(given)
CallLis ==
    /\ pc = "call_lis"
    /\ result' = longest_increasing_subsequence(given)
    /\ pc' = "called_lis"
    /\ UNCHANGED <<program, given>>

NextLis == CallLis

SpecLis == InitLis /\ [][NextLis]_vars

\* The longest sequence given to trim_sequence.
MaxTrimLen == 4

\* From one candidate of such a sequence to the next: the numbers and the
\* lines in between.
NumberSteps == {1, 2}

LineSteps == {1, 30}

\* The page lengths (1.0 and 20.5) and the values of args.max_gap given.
TrimPageLengths == { <<1, 1>>, <<41, 2>> }

TrimMaxGaps == {1, DEFAULT_MAX_GAP}

\* The sequence that starts with number 1 on line 0 and goes on by the
\* given steps.
RECURSIVE SequenceOfSteps(_, _)
SequenceOfSteps(steps, n) ==
    IF n = 0 THEN <<Candidate(1, StrOfNumber(1), 0, NoSpan)>>
    ELSE Append(SequenceOfSteps(steps, n - 1),
                Candidate(SequenceOfSteps(steps, n - 1)[n].number + steps[n][1],
                          StrOfNumber(SequenceOfSteps(steps, n - 1)[n].number + steps[n][1]),
                          SequenceOfSteps(steps, n - 1)[n].line_index + steps[n][2],
                          NoSpan))

TrimSequences ==
    { <<>> } \cup
    UNION { { SequenceOfSteps(steps, n) : steps \in [1..n -> NumberSteps \X LineSteps] } :
            n \in 0..(MaxTrimLen - 1) }

InitTrim ==
    /\ CallStart
    /\ pc = "call_trim"
    /\ given \in [sequence : TrimSequences, page_length : TrimPageLengths,
                  max_gap : TrimMaxGaps]

\* trimmed = trim_sequence(given.sequence, given.page_length, args)
CallTrim ==
    /\ pc = "call_trim"
    /\ result' = trim_sequence(given.sequence, given.page_length, given.max_gap)
    /\ pc' = "called_trim"
    /\ UNCHANGED <<program, given>>

NextTrim == CallTrim

SpecTrim == InitTrim /\ [][NextTrim]_vars

(***************************************************************************)
(* Properties                                                              *)
(***************************************************************************)
\* process_page_numbers has read a file and not yet returned.
InFile == pc \in {"extracted", "first", "repaired", "second", "printed", "raised"}

\* The second pass has returned.
Recovered == pc \in {"second", "printed"}

HasDigit(line) == \E k \in 1..Len(line) : IsDigit(line[k])

\* The only lines with a digit are isolated numbers, and they are 1, 2, ..
\* N in this order, N >= 1.
NoiseFree(text) ==
    LET cs == page_number_candidates(text)
    IN  /\ Len(cs) >= 1
        /\ \A k \in 1..Len(cs) : cs[k].number = k
        /\ \A i \in 1..Len(text) :
              HasDigit(text[i]) => \E k \in 1..Len(cs) : cs[k].line_index = i - 1

\* C1: for a document whose only numeric lines are the page numbers 1..N,
\* each on its own line and in increasing order, the run raises nothing and
\* the sequence of the second pass is exactly the candidates 1, 2, .., N,
\* each at the line where its number stands.
C1_RecoversEveryPage ==
    (InFile /\ NoiseFree(lines)) =>
        /\ exc = "none"
        /\ Recovered => sequence = page_number_candidates(lines)

\* C2: a document with no candidate, or with one candidate only, raises no
\* error, and every line of it is printed unchanged and in order.
C2_PassesThrough ==
    (InFile /\ Len(candidates) <= 1) =>
        /\ exc = "none"
        /\ pc = "printed" => out = lines

\* The line text[i + 1] with the characters of the span removed.
WithoutSpan(text, i, span) ==
    SubSeq(text[i + 1], 1, span[1]) \o SubSeq(text[i + 1], span[2] + 1, Len(text[i + 1]))

\* The spans of the candidates of seq on line i (one, for a sequence).
SpansAtLine(seq, i) == {seq[k].span : k \in PositionsAtLine(seq, i)}

\* The lines printed for the lines 0 .. n - 1 of text when a candidate with
\* a span always has its line printed, with the span removed.
RECURSIVE StripAlways(_, _, _)
StripAlways(text, seq, n) ==
    IF n = 0 THEN <<>>
    ELSE StripAlways(text, seq, n - 1) \o
         (IF SpansAtLine(seq, n - 1) = {} THEN <<text[n]>>
          ELSE IF NoSpan \in SpansAtLine(seq, n - 1) THEN <<>>
          ELSE <<WithoutSpan(text, n - 1, CHOOSE sp \in SpansAtLine(seq, n - 1) : TRUE)>>)

\* The same, a line that is empty once the span is removed not being printed.
RECURSIVE StripNonEmpty(_, _, _)
StripNonEmpty(text, seq, n) ==
    IF n = 0 THEN <<>>
    ELSE StripNonEmpty(text, seq, n - 1) \o
         (IF SpansAtLine(seq, n - 1) = {} THEN <<text[n]>>
          ELSE IF NoSpan \in SpansAtLine(seq, n - 1) THEN <<>>
          ELSE IF WithoutSpan(text, n - 1, CHOOSE sp \in SpansAtLine(seq, n - 1) : TRUE) = <<>>
               THEN <<>>
          ELSE <<WithoutSpan(text, n - 1, CHOOSE sp \in SpansAtLine(seq, n - 1) : TRUE)>>)

\* What is left of the example document: its five lines of text.
ExampleStripped == << BodyLine, BodyLine, BodyLine, BodyLine, BodyLine >>

\* C3 as stated: in strip mode a line outside the final sequence is printed
\* unchanged, a line whose candidate has no span is dropped, and a line
\* whose candidate has a span is printed as exactly one line, the original
\* line with the characters of the span removed.
C3_SpanLineAlwaysPrinted ==
    (pc = "printed" /\ ~mark) => out = StripAlways(lines, sequence, Len(lines))

\* C3 as amended: in strip mode a line outside the final sequence is printed
\* unchanged, a line whose candidate has no span is dropped, and a line
\* whose candidate has a span is printed with the characters of the span
\* removed when anything is left of it, and dropped when nothing is left.
\* The example document loses exactly its lines 1, 4 and 6.
C3_SpanLinePrintedUnlessEmpty ==
    (pc = "printed" /\ ~mark) =>
        /\ out = StripNonEmpty(lines, sequence, Len(lines))
        /\ lines = ExampleDocument => out = ExampleStripped

\* A strip-mode run has printed a document whose final sequence holds a
\* candidate with a span that covers its whole line, and one whose span
\* leaves text.
C3_Witness ==
    /\ pc = "printed"
    /\ ~mark
    /\ \E k \in 1..Len(sequence) :
          /\ sequence[k].span # NoSpan
          /\ WithoutSpan(lines, sequence[k].line_index, sequence[k].span) = <<>>

\* C4: stripping is idempotent: the pipeline run again on the lines a
\* strip-mode run has printed completes and prints them unchanged.
C4_StripIsIdempotent ==
    (pc = "printed" /\ ~mark) =>
        /\ process_page_numbers(out, max_gap, FALSE).raised = "none"
        /\ process_page_numbers(out, max_gap, FALSE).out = out

\* |x - y| <= d for rationals.
RatWithin(x, y, d) == ~RatLess(d, RatSub(x, y)) /\ ~RatLess(d, RatSub(y, x))

\* The missing numbers m between adjacent candidates of seq for which some
\* line strictly between the two, and within page_len lines of the
\* predicted position, starts with m in the looser form.
MissingInReach(text, seq, page_len) ==
    { m \in 0..(IF seq = <<>> THEN 0 ELSE seq[Len(seq)].number) :
        \E i \in 1..(Len(seq) - 1) :
           /\ seq[i].number < m
           /\ m < seq[i + 1].number
           /\ \E j \in (seq[i].line_index + 1)..(seq[i + 1].line_index - 1) :
                 /\ RatWithin(RatOfInt(j),
                              RatAdd(RatOfInt(seq[i].line_index),
                                     RatMul(RatOfInt(m - seq[i].number), page_len)),
                              page_len)
                 /\ line_has_page_number(text[j + 1], m) # NoSpan }

\* The numbers C5 is about in the current file: those of the sequence the
\* first pass selects from the candidates.
RepairableNumbers ==
    IF make_page_number_sequence(candidates, max_gap).raised # "none" THEN {}
    ELSE MissingInReach(lines,
                        make_page_number_sequence(candidates, max_gap).sequence,
                        make_page_number_sequence(candidates, max_gap).page_length)

\* C5: when a number m is missing between two adjacent candidates of the
\* first-pass sequence and a line between them, within page_length lines of
\* the predicted position, starts with m in the looser form, the run
\* completes and the sequence of the second pass has a candidate numbered m.
C5_RepairFindsMissing ==
    (pc \in {"second", "printed", "raised"} /\ RepairableNumbers # {}) =>
        /\ exc = "none"
        /\ \A m \in RepairableNumbers : \E k \in 1..Len(sequence) : sequence[k].number = m

\* C7: one file's failure never aborts the run: main does not stop on an
\* exception while files are left to process.
C7_FailureDoesNotAbort == pc = "raised" => todo = 0

\* C8: more than 100 candidate sequences are a warning only: no error is
\* raised and the pass returns its result.
C8_WarningOnly == nsequences > SequenceWarningLimit => exc = "none"

\* C9: the list repair_sequence returns is strictly increasing in number
\* and in line_index, so the enumeration of the second pass yields at least
\* one candidate sequence.
C9_RepairedIsSequence ==
    /\ pc = "repaired" =>
          \A k \in 1..(Len(repaired) - 1) :
             /\ repaired[k].number < repaired[k + 1].number
             /\ repaired[k].line_index < repaired[k + 1].line_index
    /\ (pc \in {"second", "raised"} /\ repaired # <<>>) => nsequences >= 1

\* C10: every line find_page_number reads while repairing the pair
\* (prev, curr) lies strictly between prev.line_index and curr.line_index
\* and is a line of the document.
C10_SearchStaysBetween ==
    \A r \in reads :
       /\ r[1] < r[3]
       /\ r[3] < r[2]
       /\ 0 <= r[3]
       /\ r[3] < Len(lines)

\* The numbers the monotonic filter keeps of the candidates of text.
KeptNumbers(text) ==
    longest_increasing_subsequence(NumbersOf(page_number_candidates(text)))

\* The filter keeps 1, 2, .., N of the candidates cs, each of them the
\* number of exactly one candidate.
KeepsPageNumbers(cs, kept) ==
    /\ \A k \in 1..Len(kept) : kept[k] = k
    /\ \A n \in 1..Len(kept) : Cardinality({k \in 1..Len(cs) : cs[k].number = n}) = 1

\* text is a noise-free document with the isolated page numbers 1..N plus
\* numeric lines that the monotonic filter discards.
NoiseDiscarded(text) == KeepsPageNumbers(page_number_candidates(text), KeptNumbers(text))

\* Line i (0-based) is a noise line: a candidate with a number beyond 1..n.
IsNoiseLine(cs, n, i) ==
    \E k \in 1..Len(cs) : cs[k].line_index = i /\ cs[k].number \notin 1..n

\* The 0-based indices below upto of the lines that are not noise, in order.
RECURSIVE KeptLinesUpto(_, _, _)
KeptLinesUpto(cs, n, upto) ==
    IF upto = 0 THEN <<>>
    ELSE IF IsNoiseLine(cs, n, upto - 1) THEN KeptLinesUpto(cs, n, upto - 1)
    ELSE Append(KeptLinesUpto(cs, n, upto - 1), upto - 1)

KeptLines(text) ==
    KeptLinesUpto(page_number_candidates(text), Len(KeptNumbers(text)), Len(text))

\* The lines of text at the given indices.
RECURSIVE LinesAtAll(_, _)
LinesAtAll(text, indices) ==
    IF indices = <<>> THEN <<>>
    ELSE <<text[Head(indices) + 1]>> \o LinesAtAll(text, Tail(indices))

\* The document without the noise lines.
WithoutNoise(text) == LinesAtAll(text, KeptLines(text))

\* The page-number lines of text: the candidates numbered 1..N.
PageLines(text) ==
    FilterByNumbers(page_number_candidates(text), 1..Len(KeptNumbers(text)))

\* The lines from each of the candidates ps to the next.
RECURSIVE GapsOf(_)
GapsOf(ps) ==
    IF Len(ps) < 2 THEN <<>>
    ELSE <<RatOfInt(ps[2].line_index - ps[1].line_index)>> \o GapsOf(Tail(ps))

\* None of the gaps is less than a twentieth of their median.
NoShortGap(gaps) ==
    \A k \in 1..Len(gaps) : ~RatLess(RatMul(RatOfInt(20), gaps[k]), median(gaps))

\* No two adjacent page numbers of text are closer than a twentieth of the
\* median distance between adjacent page numbers.
NoShortPage(text) == NoShortGap(GapsOf(PageLines(text)))

\* The run on the current file has ended as the run b ends, b being over
\* the lines kept of the current file: with the same exception, or with the
\* same numbers on the same lines of the current file.
SameRun(b, kept) ==
    IF pc = "raised" THEN b.raised = exc
    ELSE /\ b.raised = "none"
         /\ Len(b.sequence) = Len(sequence)
         /\ \A k \in 1..Len(sequence) :
               /\ sequence[k].number = b.sequence[k].number
               /\ sequence[k].line_index = kept[b.sequence[k].line_index + 1]

\* The run on the current file has ended as the run on the same document
\* without its noise lines ends.
SameAsWithoutNoise ==
    SameRun(process_page_numbers(WithoutNoise(lines), max_gap, mark), KeptLines(lines))

\* C6 as stated: numeric lines that the monotonic filter discards do not
\* change the recovered sequence: it has the same numbers, on the same
\* original page-number lines, as the run on the document without them.
C6_NoiseChangesNothing ==
    (pc \in {"second", "printed", "raised"} /\ NoiseDiscarded(lines))
        => SameAsWithoutNoise

\* C6 as amended: numeric lines that the monotonic filter discards do not
\* change the outcome, provided that neither with them nor without them two
\* adjacent page numbers are closer than a twentieth of the median distance
\* between adjacent page numbers (so that the trimmer cuts nothing).
C6_NoiseChangesNothingUntrimmed ==
    (/\ pc \in {"second", "printed", "raised"}
     /\ NoiseDiscarded(lines)
     /\ NoShortPage(lines)
     /\ NoShortPage(WithoutNoise(lines)))
        => SameAsWithoutNoise

\* The second pass has returned for a document of two or more page numbers
\* with noise lines among them, no two page numbers too close.
C6_Witness ==
    /\ pc = "second"
    /\ NoiseDiscarded(lines)
    /\ NoShortPage(lines)
    /\ NoShortPage(WithoutNoise(lines))
    /\ WithoutNoise(lines) # lines
    /\ Len(sequence) >= 2
    /\ \E i \in 0..(Len(lines) - 1) :
          /\ IsNoiseLine(candidates, Len(sequence), i)
          /\ sequence[1].line_index < i
          /\ i < sequence[Len(sequence)].line_index

IsStrictlyIncreasing(s) == \A k \in 1..(Len(s) - 1) : s[k] < s[k + 1]

\* The elements of numbers at the positions idx, in their order in numbers.
RECURSIVE PickUpto(_, _, _)
PickUpto(numbers, idx, n) ==
    IF n = 0 THEN <<>>
    ELSE IF n \in idx THEN Append(PickUpto(numbers, idx, n - 1), numbers[n])
    ELSE PickUpto(numbers, idx, n - 1)

\* Every strictly increasing subsequence of numbers.
IncreasingSubsequences(numbers) ==
    { s \in { PickUpto(numbers, idx, Len(numbers)) : idx \in SUBSET (1..Len(numbers)) } :
        IsStrictlyIncreasing(s) }

\* C11: longest_increasing_subsequence returns a subsequence of its input
\* that is strictly increasing and as long as the longest strictly
\* increasing subsequence of the input; for the empty list, the empty list.
C11_LisIsLongestIncreasing ==
    pc = "called_lis" =>
        /\ result \in IncreasingSubsequences(given)
        /\ \A s \in IncreasingSubsequences(given) : Len(s) <= Len(result)
        /\ given = <<>> => result = <<>>

\* The function has returned for a list with a repeated number and a
\* descent, of which it keeps two numbers or more and drops two or more.
C11_Witness ==
    /\ pc = "called_lis"
    /\ \E j, k \in 1..Len(given) : j < k /\ given[j] = given[k]
    /\ \E k \in 1..(Len(given) - 1) : given[k] > given[k + 1]
    /\ Len(result) >= 2
    /\ Len(result) + 2 <= Len(given)

\* The pair is implausible: the numbers are more than max_gap apart, or
\* the lines per page between the two are less than a twentieth of
\* page_len (a rational <<numerator, denominator>>).
Implausible(prev, curr, page_len, gap) ==
    \/ curr.number - prev.number > gap
    \/ 20 * (curr.line_index - prev.line_index) * page_len[2]
          < page_len[1] * (curr.number - prev.number)

\* The positions i of seq with the pair (seq[i], seq[i + 1]) implausible.
ImplausibleAt(seq, page_len, gap) ==
    { i \in 1..(Len(seq) - 1) : Implausible(seq[i], seq[i + 1], page_len, gap) }

FirstOf(positions) == CHOOSE i \in positions : \A j \in positions : i <= j

\* trimmed is the longer of head and tail (either, when they are equally
\* long).
IsLongerOf(trimmed, head, tail) ==
    /\ trimmed \in {head, tail}
    /\ Len(trimmed) >= Len(head)
    /\ Len(trimmed) >= Len(tail)

\* C12: trim_sequence returns a contiguous slice of its input in which no
\* adjacent pair is implausible; with the first implausible pair at
\* position i the result is the longer of sequence[:i] and the trimmed
\* sequence[i:]; a sequence of fewer than two candidates, or without an
\* implausible pair, is returned unchanged.
C12_TrimKeepsLongerPlausibleSlice ==
    pc = "called_trim" =>
        /\ \E a \in 1..(Len(given.sequence) + 1) : \E b \in 0..Len(given.sequence) :
              result = SubSeq(given.sequence, a, b)
        /\ ImplausibleAt(result, given.page_length, given.max_gap) = {}
        /\ ImplausibleAt(given.sequence, given.page_length, given.max_gap) = {}
              => result = given.sequence
        /\ ImplausibleAt(given.sequence, given.page_length, given.max_gap) # {}
              => IsLongerOf(result,
                     SubSeq(given.sequence, 1,
                            FirstOf(ImplausibleAt(given.sequence, given.page_length,
                                                  given.max_gap))),
                     trim_sequence(
                         SubSeq(given.sequence,
                                FirstOf(ImplausibleAt(given.sequence, given.page_length,
                                                      given.max_gap)) + 1,
                                Len(given.sequence)),
                         given.page_length, given.max_gap))

\* The function has returned the two middle candidates of a sequence of
\* four: it has cut the first one off, and in the rest the last one.
C12_Witness ==
    /\ pc = "called_trim"
    /\ Len(given.sequence) = 4
    /\ ImplausibleAt(given.sequence, given.page_length, given.max_gap) = {1, 3}
    /\ result = SubSeq(given.sequence, 2, 3)
=============================================================================
